---- MODULE Spec2Model ----
(***************************************************************************)
(* A model of the Trello CSV exporter: TrelloCSVParser (csv_parser.py),    *)
(* the markdown formatter (markdown_formatter.py) and the exporter's main  *)
(* (trello_exporter.py).                                                   *)
(*                                                                         *)
(* A Python str is a sequence of one-character strings, so that split,     *)
(* strip, lower, replace, re.sub and the ordering of sorted() are computed *)
(* character by character. Python's None is the one-element sequence       *)
(* <<"None">>, which is no str because "None" is not one character.        *)
(***************************************************************************)
EXTENDS Integers, Sequences, FiniteSets, TLC

VARIABLES
    csv_file,   \* the CSV at csv_file_path: [header, lines]
    readable,   \* whether open(csv_file_path) succeeds
    cards,      \* TrelloCSVParser.cards of the long-lived parser
    op,         \* the last operation called
    args,       \* its arguments
    ret,        \* what it returned or raised
    team_src,   \* per extracted card, the label its team was derived from
    last_parse  \* how the most recent parse_csv ended: "none", "ok", "failed"

vars == <<csv_file, readable, cards, op, args, ret, team_src, last_parse>>

(***************************************************************************)
(* Bounds of the model.                                                    *)
(***************************************************************************)
MaxRows == 2
MaxRaw == 6
MaxTeams == 4
MaxPieces == 6
MaxCards == 3

(***************************************************************************)
(* Python values and str methods.                                          *)
(***************************************************************************)
None == <<"None">>

Return(v) == [kind |-> "return", value |-> v]

Raise(e) == [kind |-> "raise", exc |-> e]

\* The characters in use, in code point order.
Ascii ==
    <<" ", "(", ")", ",", ":",
      "A", "B", "C", "D", "E", "F", "G", "H", "I", "J", "K", "L", "M",
      "N", "O", "P", "Q", "R", "S", "T", "U", "V", "W", "X", "Y", "Z",
      "_",
      "a", "b", "c", "d", "e", "f", "g", "h", "i", "j", "k", "l", "m",
      "n", "o", "p", "q", "r", "s", "t", "u", "v", "w", "x", "y", "z">>

Ord(c) == CHOOSE i \in 1..Len(Ascii) : Ascii[i] = c

IsUpper(c) == Ord(c) >= Ord("A") /\ Ord(c) <= Ord("Z")

LowerChar(c) == IF IsUpper(c) THEN Ascii[Ord(c) + (Ord("a") - Ord("A"))] ELSE c

\* str.lower()
Lower(s) == [i \in 1..Len(s) |-> LowerChar(s[i])]

IsSpace(c) == c = " "

RECURSIVE LStrip(_)
LStrip(s) ==
    IF s # <<>> /\ IsSpace(Head(s)) THEN LStrip(Tail(s)) ELSE s

RECURSIVE RStrip(_)
RStrip(s) ==
    IF s # <<>> /\ IsSpace(s[Len(s)]) THEN RStrip(SubSeq(s, 1, Len(s) - 1)) ELSE s

\* str.strip()
Strip(s) == RStrip(LStrip(s))

\* str.split(','): the pieces between the commas, always at least one.
RECURSIVE SplitFrom(_, _, _, _)
SplitFrom(s, sep, i, piece) ==
    IF i > Len(s) THEN <<piece>>
    ELSE IF s[i] = sep THEN <<piece>> \o SplitFrom(s, sep, i + 1, <<>>)
    ELSE SplitFrom(s, sep, i + 1, Append(piece, s[i]))

Split(s) == SplitFrom(s, ",", 1, <<>>)

Range(f) == {f[i] : i \in DOMAIN f}

\* dict.get(key, default)
Get(d, key, default) == IF key \in DOMAIN d THEN d[key] ELSE default

\* s < t for two str, as sorted() compares them.
RECURSIVE StrLess(_, _)
StrLess(s, t) ==
    IF t = <<>> THEN FALSE
    ELSE IF s = <<>> THEN TRUE
    ELSE IF Head(s) # Head(t) THEN Ord(Head(s)) < Ord(Head(t))
    ELSE StrLess(Tail(s), Tail(t))

(***************************************************************************)
(* String literals of the source.                                          *)
(***************************************************************************)
DefaultLabel ==
    <<"R", "e", "p", "o", "r", "t", "a", "b", "l", "e", " ",
      "(", "b", "l", "a", "c", "k", "_", "d", "a", "r", "k", ")">>

DefaultList == <<"P", "r", "o", "j", "e", "c", "t", " ", "L", "i", "s", "t">>

TrueStr == <<"t", "r", "u", "e">>

Uncategorized ==
    <<"U", "n", "c", "a", "t", "e", "g", "o", "r", "i", "z", "e", "d">>

TMM == <<"T", "M", "M">>

SRE == <<"S", "R", "E">>

Heading1 ==
    <<"#", " ", "T", "r", "a", "n", "s", "a", "c", "t", "i", "o", "n", " ",
      "M", "a", "n", "a", "g", "e", "m", "e", "n", "t", " ", "a", "n", "d",
      " ", "M", "i", "d", "d", "l", "e", "w", "a", "r", "e", "\n", "\n">>

NoCardsNotice ==
    <<"*", "N", "o", " ", "c", "a", "r", "d", "s", " ", "f", "o", "u", "n",
      "d", " ", "m", "a", "t", "c", "h", "i", "n", "g", " ", "t", "h", "e",
      " ", "c", "r", "i", "t", "e", "r", "i", "a", ".", "*">>

NoDescription ==
    <<"*", "N", "o", " ", "d", "e", "s", "c", "r", "i", "p", "t", "i", "o",
      "n", " ", "p", "r", "o", "v", "i", "d", "e", "d", "*", "\n", "\n">>

GeneratedOn ==
    <<"*", "G", "e", "n", "e", "r", "a", "t", "e", "d", " ", "o", "n", ":",
      " ">>

Heading2 ==
    <<"#", "#", " ">>

Heading3 ==
    <<"#", "#", "#", " ">>

QuestionEmoji ==
    <<":", "q", "u", "e", "s", "t", "i", "o", "n", ":">>

WarningEmoji ==
    <<":", "w", "a", "r", "n", "i", "n", "g", ":">>

NeedsClarification ==
    <<"(", "n", "e", "e", "d", "s", " ", "c", "l", "a", "r", "i", "f", "i",
      "c", "a", "t", "i", "o", "n", ")">>

ImportantNote ==
    <<"(", "i", "m", "p", "o", "r", "t", "a", "n", "t", " ", "n", "o", "t",
      "e", ")">>

TmmRed ==
    <<"T", "M", "M", " ", "(", "r", "e", "d", ")">>

SreGreen ==
    <<"S", "R", "E", " ", "(", "g", "r", "e", "e", "n", ")">>

Blue ==
    <<"(", "b", "l", "u", "e", ")">>

Time1 ==
    <<"2", "0", "2", "6", "-", "1", "1", "-", "0", "1", " ", "0", "9", ":",
      "3", "0", ":", "0", "0">>

Time2 ==
    <<"2", "0", "2", "6", "-", "1", "1", "-", "0", "1", " ", "0", "9", ":",
      "3", "0", ":", "0", "1">>

FixQuestionNow ==
    <<"F", "i", "x", " ", ":", "q", "u", "e", "s", "t", "i", "o", "n", ":",
      " ", "n", "o", "w">>

SeeWarning ==
    <<"s", "e", "e", " ", ":", "w", "a", "r", "n", "i", "n", "g", ":">>

OtherList ==
    <<"O", "t", "h", "e", "r">>

NearMiss ==
    <<"R", "e", "p", "o", "r", "t", "a", "b", "l", "e", " ", "(", "b", "l",
      "a", "c", "k", "_", "d", "a", "r", "k", ")", " ", "x">>


(***************************************************************************)
(* The CSV file and csv.DictReader.                                        *)
(***************************************************************************)
FullHeader ==
    <<"List Name", "Labels", "Archived", "Card Name", "Card Description">>

NoArchivedHeader == <<"List Name", "Labels">>

Headers == {FullHeader, NoArchivedHeader}

Comma == <<",", " ">>

\* The lines a file is made of: each a sequence of fields, at least one.
LineTmm ==
    <<DefaultList, DefaultLabel \o Comma \o TmmRed, <<"f", "a", "l", "s", "e">>,
      FixQuestionNow, SeeWarning>>

LineArchived ==
    <<DefaultList, DefaultLabel \o Comma \o TmmRed, <<"T", "r", "u", "e">>,
      <<"n">>, <<>>>>

LineBlue ==
    <<DefaultList, Blue \o Comma \o DefaultLabel, <<>>, <<"n">>, <<>>>>

LineOther ==
    <<OtherList, DefaultLabel, <<>>, <<"n">>, <<>>>>

LineTwoTeams ==
    <<DefaultList, TmmRed \o Comma \o SreGreen, <<>>, <<"n">>, <<>>>>

LineNearMiss ==
    <<DefaultList, NearMiss \o Comma \o SreGreen, <<>>, <<"n">>, <<>>>>

\* Fewer fields than the header has columns.
LineTwoFields == <<DefaultList, DefaultLabel>>

LineOneField == <<DefaultList>>

Lines ==
    {LineTmm, LineArchived, LineBlue, LineOther, LineTwoTeams, LineNearMiss,
     LineTwoFields, LineOneField}

SeqsUpTo(S, n) == UNION {[1..k -> S] : k \in 0..n}

Files == [header : Headers, lines : SeqsUpTo(Lines, MaxRows)]

Index(seq, x) == CHOOSE i \in 1..Len(seq) : seq[i] = x

\* One row of csv.DictReader: a dict keyed by the header's names; a field the
\* line does not have is None (restval); the fields past the header go under
\* the key None (restkey), which nothing reads, and are left out.
DictRow(header, line) ==
    [c \in Range(header) |->
        IF Index(header, c) <= Len(line) THEN line[Index(header, c)] ELSE None]

DictReader(file) ==
    [i \in 1..Len(file.lines) |-> DictRow(file.header, file.lines[i])]

(***************************************************************************)
(* TrelloCSVParser                                                         *)
(***************************************************************************)
\* parse_csv on a parser whose cards are self_cards: the new self.cards and
\* the value returned.
parse_csv(self_cards) ==
    IF readable
    THEN [cards |-> DictReader(csv_file), ret |-> DictReader(csv_file),
          parse |-> "ok"]
    ELSE [cards |-> self_cards, ret |-> <<>>, parse |-> "failed"]

\* [label.strip() for label in labels]
StripAll(labels) == [i \in 1..Len(labels) |-> Strip(labels[i])]

\* One pass of filter_cards' loop body: "skip" (continue), "keep" (append)
\* or "raise" (a method called on None).
FilterRow(card, list_name, label_filter, include_archived) ==
    IF Get(card, "List Name", None) # list_name THEN "skip"
    ELSE IF ~include_archived /\ Get(card, "Archived", <<>>) = None THEN "raise"
    ELSE IF ~include_archived /\ Lower(Get(card, "Archived", <<>>)) = TrueStr
    THEN "skip"
    ELSE IF Get(card, "Labels", <<>>) = None THEN "raise"
    ELSE IF label_filter \in Range(StripAll(Split(Get(card, "Labels", <<>>))))
    THEN "keep"
    ELSE "skip"

RECURSIVE FilterLoop(_, _, _, _, _)
FilterLoop(cs, list_name, label_filter, include_archived, filtered_cards) ==
    IF cs = <<>> THEN Return(filtered_cards)
    ELSE LET r == FilterRow(Head(cs), list_name, label_filter, include_archived)
         IN  IF r = "raise" THEN Raise("AttributeError")
             ELSE FilterLoop(Tail(cs), list_name, label_filter, include_archived,
                             IF r = "keep" THEN Append(filtered_cards, Head(cs))
                             ELSE filtered_cards)

\* filter_cards on a parser whose cards are self_cards: the new self.cards and
\* what the call returns or raises.
filter_cards(self_cards, list_name, label_filter, include_archived) ==
    LET parsed == IF self_cards = <<>> THEN parse_csv(self_cards).cards
                  ELSE self_cards
    IN  [cards |-> parsed,
         ret |-> FilterLoop(parsed, list_name, label_filter, include_archived,
                            <<>>),
         parse |-> IF self_cards = <<>> THEN parse_csv(self_cards).parse
                   ELSE last_parse]

\* Whether \s*\([^)]*\)\s*$ matches s from position i on.
RECURSIVE SkipSpaces(_, _)
SkipSpaces(s, i) ==
    IF i <= Len(s) /\ IsSpace(s[i]) THEN SkipSpaces(s, i + 1) ELSE i

RECURSIVE SkipNotClose(_, _)
SkipNotClose(s, i) ==
    IF i <= Len(s) /\ s[i] # ")" THEN SkipNotClose(s, i + 1) ELSE i

MatchAt(s, i) ==
    LET open == SkipSpaces(s, i)
        close == SkipNotClose(s, open + 1)
    IN  /\ open <= Len(s)
        /\ s[open] = "("
        /\ close <= Len(s)
        /\ SkipSpaces(s, close + 1) > Len(s)

\* re.search: the leftmost position the pattern matches from, 0 when none.
RECURSIVE SearchFrom(_, _)
SearchFrom(s, i) ==
    IF i > Len(s) THEN 0
    ELSE IF MatchAt(s, i) THEN i
    ELSE SearchFrom(s, i + 1)

\* re.sub(r'\s*\([^)]*\)\s*$', '', label): a match runs to the end of the
\* string, so there is at most one.
ReSub(label) ==
    LET at == SearchFrom(label, 1)
    IN  IF at = 0 THEN label ELSE SubSeq(label, 1, at - 1)

extract_team_name(label) == Strip(ReSub(label))

\* The loop of get_team_label: the label it returns from, None when it
\* falls through.
RECURSIVE TeamLabel(_, _)
TeamLabel(labels, reportable_label) ==
    IF labels = <<>> THEN None
    ELSE IF Head(labels) # reportable_label /\ Strip(Head(labels)) # <<>>
    THEN Head(labels)
    ELSE TeamLabel(Tail(labels), reportable_label)

\* get_team_label without the comparison with reportable_label.
get_team_label_any(labels, reportable_label) ==
    IF TeamLabel(labels, None) = None THEN Uncategorized
    ELSE extract_team_name(TeamLabel(labels, None))

get_team_label(labels, reportable_label) ==
    IF TeamLabel(labels, reportable_label) = None THEN Uncategorized
    ELSE extract_team_name(TeamLabel(labels, reportable_label))

\* [label.strip() for label in labels if label.strip()]
NonEmptyLabels(labels) ==
    SelectSeq(StripAll(labels), LAMBDA l : l # <<>>)

card_info(card, reportable_label) ==
    LET labels == NonEmptyLabels(Split(Get(card, "Labels", <<>>)))
    IN  [id |-> Get(card, "Card ID", <<>>),
         name |-> Get(card, "Card Name", <<>>),
         description |-> Get(card, "Card Description", <<>>),
         url |-> Get(card, "Card URL", <<>>),
         labels |-> labels,
         team |-> get_team_label(labels, reportable_label),
         due_date |-> Get(card, "Due Date", None),
         list_name |-> Get(card, "List Name", <<>>),
         board_name |-> Get(card, "Board Name", <<>>)]

\* extract_card_info: None has no split, so a card whose Labels is None raises.
extract_card_info(cs, reportable_label) ==
    IF \E i \in 1..Len(cs) : Get(cs[i], "Labels", <<>>) = None
    THEN Raise("AttributeError")
    ELSE Return([i \in 1..Len(cs) |-> card_info(cs[i], reportable_label)])

\* Per card of cs, the label get_team_label returned from.
TeamSources(cs, reportable_label) ==
    [i \in 1..Len(cs) |->
        TeamLabel(NonEmptyLabels(Split(Get(cs[i], "Labels", <<>>))),
                  reportable_label)]

(***************************************************************************)
(* markdown_formatter                                                      *)
(***************************************************************************)
\* str.replace(old, new): every occurrence found scanning from the left,
\* the scan resuming after each one.
RECURSIVE StrReplace(_, _, _)
StrReplace(s, old, new) ==
    IF Len(s) < Len(old) THEN s
    ELSE IF SubSeq(s, 1, Len(old)) = old
    THEN new \o StrReplace(SubSeq(s, Len(old) + 1, Len(s)), old, new)
    ELSE <<Head(s)>> \o StrReplace(Tail(s), old, new)

\* The replacements dict, in its insertion order.
replacements ==
    <<<<QuestionEmoji, NeedsClarification>>, <<WarningEmoji, ImportantNote>>>>

RECURSIVE ReplaceAll(_, _)
ReplaceAll(text, items) ==
    IF items = <<>> THEN text
    ELSE ReplaceAll(StrReplace(text, Head(items)[1], Head(items)[2]), Tail(items))

\* replace_emoji_strings stopping after the first entry of the dict.
replace_emoji_first(text) == ReplaceAll(text, SubSeq(replacements, 1, 1))

replace_emoji_strings(text) == ReplaceAll(text, replacements)

\* Truthiness of a str or None.
Truthy(v) == v # <<>> /\ v # None

format_card_as_markdown(card) ==
    Heading3 \o replace_emoji_strings(card.name) \o <<"\n", "\n">>
    \o (IF Truthy(card.description)
        THEN replace_emoji_strings(card.description) \o <<"\n", "\n">>
        ELSE NoDescription)
    \o <<"\n">>

\* A dict is its keys in insertion order and the value of each.
EmptyDict == [keys |-> <<>>, vals |-> <<>>]

\* teams[team].append(card) on a defaultdict(list)
AppendTo(teams, team, card) ==
    [keys |-> IF team \in Range(teams.keys) THEN teams.keys
              ELSE Append(teams.keys, team),
     vals |-> [k \in Range(teams.keys) \cup {team} |->
                  IF k = team
                  THEN Append(IF k \in Range(teams.keys) THEN teams.vals[k]
                              ELSE <<>>, card)
                  ELSE teams.vals[k]]]

RECURSIVE GroupLoop(_, _)
GroupLoop(cs, teams) ==
    IF cs = <<>> THEN teams
    ELSE GroupLoop(Tail(cs),
                   AppendTo(teams, Get(Head(cs), "team", Uncategorized), Head(cs)))

\* group_cards_by_team with teams[team] = [card] for teams[team].append(card).
RECURSIVE GroupLoopAssign(_, _)
GroupLoopAssign(cs, teams) ==
    IF cs = <<>> THEN teams
    ELSE LET team == Get(Head(cs), "team", Uncategorized)
         IN  GroupLoopAssign(
                 Tail(cs),
                 [keys |-> IF team \in Range(teams.keys) THEN teams.keys
                           ELSE Append(teams.keys, team),
                  vals |-> [k \in Range(teams.keys) \cup {team} |->
                               IF k = team THEN <<Head(cs)>> ELSE teams.vals[k]]])

group_cards_assign(cs) == GroupLoopAssign(cs, EmptyDict)

group_cards_by_team(cs) == GroupLoop(cs, EmptyDict)

\* sorted(): insertion of each element after the elements not greater.
RECURSIVE Insert(_, _)
Insert(sorted, x) ==
    IF sorted = <<>> THEN <<x>>
    ELSE IF StrLess(x, Head(sorted)) THEN <<x>> \o sorted
    ELSE <<Head(sorted)>> \o Insert(Tail(sorted), x)

RECURSIVE Sorted(_)
Sorted(seq) ==
    IF seq = <<>> THEN <<>>
    ELSE Insert(Sorted(SubSeq(seq, 1, Len(seq) - 1)), seq[Len(seq)])

\* get_ordered_teams whose remaining teams leave out "TMM" only.
get_ordered_teams_sre_twice(teams) ==
    (IF TMM \in Range(teams.keys) THEN <<TMM>> ELSE <<>>)
    \o (IF SRE \in Range(teams.keys) THEN <<SRE>> ELSE <<>>)
    \o Sorted(SelectSeq(teams.keys, LAMBDA team : team \notin {TMM}))

get_ordered_teams(teams) ==
    (IF TMM \in Range(teams.keys) THEN <<TMM>> ELSE <<>>)
    \o (IF SRE \in Range(teams.keys) THEN <<SRE>> ELSE <<>>)
    \o Sorted(SelectSeq(teams.keys, LAMBDA team : team \notin {TMM, SRE}))

RECURSIVE CardsMarkdown(_)
CardsMarkdown(team_cards) ==
    IF team_cards = <<>> THEN <<>>
    ELSE format_card_as_markdown(Head(team_cards))
         \o CardsMarkdown(Tail(team_cards))

RECURSIVE TeamSections(_, _)
TeamSections(ordered_team_names, teams) ==
    IF ordered_team_names = <<>> THEN <<>>
    ELSE Heading2 \o Head(ordered_team_names) \o <<"\n", "\n">>
         \o CardsMarkdown(teams.vals[Head(ordered_team_names)])
         \o TeamSections(Tail(ordered_team_names), teams)

\* format_cards_to_markdown without the early return on no cards.
format_cards_no_fallback(cs, title, include_metadata, current_time) ==
    Heading1
    \o (IF include_metadata
        THEN GeneratedOn \o current_time \o <<"*", "\n", "\n">> \o <<"\n">>
        ELSE <<>>)
    \o TeamSections(get_ordered_teams(group_cards_by_team(cs)),
                    group_cards_by_team(cs))

\* format_cards_to_markdown; current_time is datetime.now() as formatted.
format_cards_to_markdown(cs, title, include_metadata, current_time) ==
    IF cs = <<>> THEN Heading1 \o NoCardsNotice
    ELSE Heading1
         \o (IF include_metadata
             THEN GeneratedOn \o current_time \o <<"*", "\n", "\n">> \o <<"\n">>
             ELSE <<>>)
         \o TeamSections(get_ordered_teams(group_cards_by_team(cs)),
                         group_cards_by_team(cs))

\* The default of title: the heading's text.
DefaultTitle == SubSeq(Heading1, 3, Len(Heading1) - 2)

\* replace_emoji_strings(None) raises: None has no replace.
FormatRaises(cs) == \E i \in 1..Len(cs) : cs[i].name = None

(***************************************************************************)
(* The inputs of the operations.                                           *)
(***************************************************************************)
ListNames == {DefaultList, OtherList}

LabelFilters == {DefaultLabel, TmmRed}

Times == {Time1, Time2}

Titles == {DefaultTitle, <<"T">>}

(***************************************************************************)
(* The parser, the exporter and the file they read.                        *)
(***************************************************************************)
Init ==
    /\ csv_file \in Files
    /\ readable \in BOOLEAN
    /\ cards = <<>>
    /\ op = "__init__"
    /\ args = <<>>
    /\ ret = Return(None)
    /\ team_src = <<>>
    /\ last_parse = "none"

ParseCsv ==
    /\ op' = "parse_csv"
    /\ args' = <<>>
    /\ cards' = parse_csv(cards).cards
    /\ ret' = Return(parse_csv(cards).ret)
    /\ team_src' = <<>>
    /\ last_parse' = parse_csv(cards).parse
    /\ UNCHANGED <<csv_file, readable>>

FilterCards ==
    \E list_name \in ListNames, label_filter \in LabelFilters,
       include_archived \in BOOLEAN :
        LET r == filter_cards(cards, list_name, label_filter, include_archived)
        IN  /\ op' = "filter_cards"
            /\ args' = [list_name |-> list_name, label_filter |-> label_filter,
                        include_archived |-> include_archived]
            /\ cards' = r.cards
            /\ ret' = r.ret
            /\ team_src' = <<>>
            /\ last_parse' = r.parse
            /\ UNCHANGED <<csv_file, readable>>

\* extract_card_info on what filter_cards just returned.
ExtractCardInfo ==
    /\ op = "filter_cards"
    /\ ret.kind = "return"
    /\ \E reportable_label \in LabelFilters :
        /\ op' = "extract_card_info"
        /\ args' = [cards |-> ret.value, reportable_label |-> reportable_label]
        /\ ret' = extract_card_info(ret.value, reportable_label)
        /\ team_src' = TeamSources(ret.value, reportable_label)
        /\ UNCHANGED <<csv_file, readable, cards, last_parse>>

\* trello_exporter.main: its own parser, filter_cards with the arguments,
\* extract_card_info with its default label, the markdown written and the
\* CSV deleted unless kept; any exception ends it with 1.
MainResult(list_name, label, include_archived, current_time) ==
    LET filtered == filter_cards(<<>>, list_name, label, include_archived).ret
        info == extract_card_info(filtered.value, DefaultLabel)
    IN  IF filtered.kind = "raise" THEN [status |-> 1, written |-> None,
                                          sources |-> <<>>]
        ELSE IF info.kind = "raise" THEN [status |-> 1, written |-> None,
                                          sources |-> <<>>]
        ELSE IF info.value = <<>> THEN [status |-> 1, written |-> None,
                                        sources |-> <<>>]
        ELSE IF FormatRaises(info.value)
        THEN [status |-> 1, written |-> None,
              sources |-> TeamSources(filtered.value, DefaultLabel)]
        ELSE [status |-> 0,
              written |-> format_cards_to_markdown(
                              info.value, DefaultTitle, TRUE, current_time),
              sources |-> TeamSources(filtered.value, DefaultLabel)]

Main ==
    \E list_name \in ListNames, label \in LabelFilters,
       include_archived \in BOOLEAN, keep_csv \in BOOLEAN,
       current_time \in Times :
        LET r == MainResult(list_name, label, include_archived, current_time)
        IN  /\ op = "__init__"
            /\ op' = "main"
            /\ args' = [list_name |-> list_name, label |-> label,
                        include_archived |-> include_archived,
                        keep_csv |-> keep_csv]
            /\ ret' = [kind |-> "return", value |-> r.status,
                       written |-> r.written]
            /\ team_src' = r.sources
            /\ readable' = IF r.status = 0 /\ ~keep_csv THEN FALSE ELSE readable
            /\ UNCHANGED <<csv_file, cards, last_parse>>

\* The CSV is removed between two calls: os.remove in the exporter's
\* delete_file, or anything else that makes the path unreadable.
DeleteFile ==
    /\ readable
    /\ readable' = FALSE
    /\ UNCHANGED <<csv_file, cards, op, args, ret, team_src, last_parse>>

Next == ParseCsv \/ FilterCards \/ ExtractCardInfo \/ DeleteFile

Spec == Init /\ [][Next]_vars

\* One run of the exporter on the file.
NextMain == Main

SpecMain == Init /\ [][NextMain]_vars

(***************************************************************************)
(* Calls of the pure functions, each on inputs drawn from bounded sets.    *)
(***************************************************************************)
NoFile == [header |-> <<>>, lines |-> <<>>]

\* The state before a call of a pure function on the arguments in inputs.
InitPure(inputs) ==
    /\ csv_file = NoFile
    /\ readable = FALSE
    /\ cards = <<>>
    /\ op = "__init__"
    /\ args \in inputs
    /\ ret = Return(None)
    /\ team_src = <<>>
    /\ last_parse = "none"

\* Label lists: the trimmed tokens of every Labels field of up to MaxRaw
\* characters, the empty list, and the list of the documented example.
RawChars == {"a", " ", "(", ")", ","}

LabelLists ==
    {StripAll(Split(raw)) : raw \in SeqsUpTo(RawChars, MaxRaw)}
    \cup {<<>>, <<DefaultLabel, SreGreen>>}

ReportableLabels == {DefaultLabel, <<"a">>, <<"a", " ", "(", ")">>}

GetTeamLabel ==
    /\ op = "__init__"
    /\ op' = "get_team_label"
    /\ ret' = Return(get_team_label(args.labels, args.reportable_label))
    /\ team_src' = <<TeamLabel(args.labels, args.reportable_label)>>
    /\ UNCHANGED <<csv_file, readable, cards, args, last_parse>>

NextTeam == GetTeamLabel

InitTeam ==
    InitPure([labels : LabelLists, reportable_label : ReportableLabels])

SpecTeam == InitTeam /\ [][NextTeam]_vars

\* Team dicts: up to MaxTeams distinct names as keys, in any insertion order.
TeamNames ==
    {TMM, SRE, <<"A", "l", "p", "h", "a">>, <<"Z", "e", "t", "a">>,
     <<"a", "l", "p", "h", "a">>, <<"S", "R">>, <<>>}

KeySeqs ==
    {ks \in SeqsUpTo(TeamNames, MaxTeams) :
        \A i, j \in 1..Len(ks) : i # j => ks[i] # ks[j]}

GetOrderedTeams ==
    /\ op = "__init__"
    /\ op' = "get_ordered_teams"
    /\ ret' = Return(get_ordered_teams(args))
    /\ UNCHANGED <<csv_file, readable, cards, args, team_src, last_parse>>

NextOrder == GetOrderedTeams

InitOrder ==
    InitPure({[keys |-> ks, vals |-> [k \in Range(ks) |-> <<>>]] :
              ks \in KeySeqs})

SpecOrder == InitOrder /\ [][NextOrder]_vars

\* Texts: up to MaxPieces pieces, each a colon, a placeholder's word or a
\* letter, so that placeholders occur alone, repeated and sharing a colon.
Pieces ==
    {<<":">>, <<"q", "u", "e", "s", "t", "i", "o", "n">>,
     <<"w", "a", "r", "n", "i", "n", "g">>, <<"x">>}

RECURSIVE Concat(_)
Concat(seqs) == IF seqs = <<>> THEN <<>> ELSE Head(seqs) \o Concat(Tail(seqs))

Texts == {Concat(ps) : ps \in SeqsUpTo(Pieces, MaxPieces)}

ReplaceEmojiStrings ==
    /\ op = "__init__"
    /\ op' = "replace_emoji_strings"
    /\ ret' = Return(replace_emoji_strings(args.text))
    /\ UNCHANGED <<csv_file, readable, cards, args, team_src, last_parse>>

NextEmoji == ReplaceEmojiStrings

InitEmoji == InitPure([text : Texts])

SpecEmoji == InitEmoji /\ [][NextEmoji]_vars

\* Cards as extract_card_info builds them: a team, and a name and description
\* with and without placeholders.
Card(team, name, description) ==
    [id |-> <<>>, name |-> name, description |-> description, url |-> <<>>,
     labels |-> <<>>, team |-> team, due_date |-> None,
     list_name |-> DefaultList, board_name |-> <<>>]

CardTeams == {TMM, <<"Z", "e", "t", "a">>, <<"A", "l", "p", "h", "a">>}

CardSet ==
    {Card(t, FixQuestionNow, <<>>) : t \in CardTeams}
    \cup {Card(t, <<"n">>, SeeWarning) : t \in CardTeams}

FormatCardsToMarkdown ==
    /\ op = "__init__"
    /\ \E current_time \in Times :
        /\ op' = "format_cards_to_markdown"
        /\ ret' = Return(format_cards_to_markdown(args.cards, args.title,
                                                  args.include_metadata,
                                                  current_time))
        /\ UNCHANGED <<csv_file, readable, cards, args, team_src, last_parse>>

NextRender == FormatCardsToMarkdown

InitRender ==
    InitPure([cards : SeqsUpTo(CardSet, MaxCards), title : Titles,
              include_metadata : BOOLEAN])

SpecRender == InitRender /\ [][NextRender]_vars

(***************************************************************************)
(* The claims.                                                             *)
(***************************************************************************)
\* A column of a row as the specification reads it: a column the row has no
\* value for is the empty string.
Field(row, col) ==
    IF col \in DOMAIN row /\ row[col] # None THEN row[col] ELSE <<>>

Qualifies(row, list_name, label_filter, include_archived) ==
    /\ Field(row, "List Name") = list_name
    /\ ~(~include_archived /\ Lower(Field(row, "Archived")) = TrueStr)
    /\ \E i \in 1..Len(Split(Field(row, "Labels"))) :
          Strip(Split(Field(row, "Labels"))[i]) = label_filter

\* C1: filter_cards returns exactly the parsed rows, in input order and each
\* once, whose List Name equals list_name, that are not archived unless
\* include_archived, and of whose comma-separated, trimmed Labels tokens one
\* equals label_filter.
C1_FilterReturnsQualifyingRows ==
    op = "filter_cards" =>
        /\ ret.kind = "return"
        /\ ret.value =
              SelectSeq(cards,
                        LAMBDA row : Qualifies(row, args.list_name,
                                               args.label_filter,
                                               args.include_archived))

\* C2: the team of every card extract_card_info produces is not the empty
\* string.
C2_TeamNeverEmpty ==
    (op = "extract_card_info" /\ ret.kind = "return") =>
        \A i \in 1..Len(ret.value) : ret.value[i].team # <<>>

\* Where the trailing parenthesized group of a label starts, 0 when it has
\* none: the label ends, before trailing whitespace, with ")", and the group
\* opens at the first "(" after the ")" before that one.
GroupStart(label) ==
    LET t == RStrip(label)
        before == {k \in 1..(Len(t) - 1) : t[k] = ")"}
        from == IF before = {} THEN 0
                ELSE CHOOSE k \in before : \A m \in before : m <= k
        opens == {k \in (from + 1)..(Len(t) - 1) : t[k] = "("}
    IN  IF t = <<>> \/ t[Len(t)] # ")" \/ opens = {} THEN 0
        ELSE CHOOSE k \in opens : \A m \in opens : k <= m

TeamOfLabel(label) ==
    IF GroupStart(label) = 0 THEN label
    ELSE Strip(SubSeq(label, 1, GroupStart(label) - 1))

LexLess(s, t) ==
    \E k \in 1..Len(t) :
        /\ \A m \in 1..(k - 1) : m <= Len(s) /\ s[m] = t[m]
        /\ \/ k > Len(s)
           \/ k <= Len(s) /\ Ord(s[k]) < Ord(t[k])

\* C4: get_ordered_teams returns each team name once and no other, "TMM"
\* first when present, "SRE" right after it (first without "TMM") when
\* present, and the other names after them in ascending order.
C4_OrderedTeams ==
    op = "get_ordered_teams" =>
        LET out == ret.value
            names == Range(args.keys)
            rest == {i \in 1..Len(out) : out[i] \notin {TMM, SRE}}
        IN  /\ Len(out) = Cardinality(names)
            /\ Range(out) = names
            /\ TMM \in names => out[1] = TMM
            /\ SRE \in names => out[IF TMM \in names THEN 2 ELSE 1] = SRE
            /\ \A i, j \in rest : i < j => LexLess(out[i], out[j])
            /\ \A i \in rest : \A j \in 1..Len(out) : out[j] \in {TMM, SRE} => j < i

C4_Witness ==
    /\ op = "get_ordered_teams"
    /\ args.keys = <<<<"Z", "e", "t", "a">>, TMM, SRE,
                     <<"A", "l", "p", "h", "a">>>>
    /\ ret.value = <<TMM, SRE, <<"A", "l", "p", "h", "a">>,
                     <<"Z", "e", "t", "a">>>>

\* C5: on a row that has no value for a queried column filter_cards and
\* extract_card_info do not fail, and every extracted text field is a
\* string.
C5_MissingColumnIsEmptyString ==
    op \in {"filter_cards", "extract_card_info"} =>
        /\ ret.kind = "return"
        /\ op = "extract_card_info" =>
              \A i \in 1..Len(ret.value) :
                  \A f \in {"id", "name", "description", "url", "list_name",
                            "board_name"} : ret.value[i][f] # None

\* C6: a parse_csv that fails returns the empty sequence, and a filter_cards
\* whose most recent parse attempt failed returns no row.
C6_FailedParseMeansNoCards ==
    /\ (op = "parse_csv" /\ last_parse = "failed") => ret = Return(<<>>)
    /\ (op = "filter_cards" /\ last_parse = "failed" /\ ret.kind = "return")
           => ret.value = <<>>

\* The lines of a document.
LinesOf(markdown) == SplitFrom(markdown, "\n", 1, <<>>)

\* C7: on no cards format_cards_to_markdown returns the fixed title
\* heading, an empty line and the no-cards notice, whatever the title and
\* include_metadata.
C7_EmptyFallback ==
    (op = "format_cards_to_markdown" /\ args.cards = <<>>) =>
        LinesOf(ret.value) =
            <<SubSeq(Heading1, 1, Len(Heading1) - 2), <<>>, NoCardsNotice>>

C7_Witness ==
    /\ op = "format_cards_to_markdown"
    /\ args.cards = <<>>
    /\ args.include_metadata
    /\ args.title # DefaultTitle

\* C8: in the exporter's run no card's team is derived from the label the
\* cards were filtered by.
C8_FilterLabelIsNotTheTeam ==
    op = "main" => \A i \in 1..Len(team_src) : team_src[i] # args.label

HasSubstring(s, sub) ==
    \E i \in 1..(Len(s) - Len(sub) + 1) : SubSeq(s, i, i + Len(sub) - 1) = sub

\* The text with every placeholder replaced in one pass from the left.
RECURSIVE ReplaceBoth(_)
ReplaceBoth(s) ==
    IF s = <<>> THEN <<>>
    ELSE IF Len(s) >= Len(QuestionEmoji)
            /\ SubSeq(s, 1, Len(QuestionEmoji)) = QuestionEmoji
    THEN NeedsClarification
         \o ReplaceBoth(SubSeq(s, Len(QuestionEmoji) + 1, Len(s)))
    ELSE IF Len(s) >= Len(WarningEmoji)
            /\ SubSeq(s, 1, Len(WarningEmoji)) = WarningEmoji
    THEN ImportantNote \o ReplaceBoth(SubSeq(s, Len(WarningEmoji) + 1, Len(s)))
    ELSE <<Head(s)>> \o ReplaceBoth(Tail(s))

QuestionThenWarning(text) ==
    StrReplace(StrReplace(text, QuestionEmoji, NeedsClarification),
               WarningEmoji, ImportantNote)

WarningThenQuestion(text) ==
    StrReplace(StrReplace(text, WarningEmoji, ImportantNote),
               QuestionEmoji, NeedsClarification)

\* A ":question:" and a ":warning:" that share a colon.
SharedColon(text) ==
    \/ HasSubstring(text, QuestionEmoji \o Tail(WarningEmoji))
    \/ HasSubstring(text, WarningEmoji \o Tail(QuestionEmoji))

\* C9 as stated: the substitution replaces every occurrence of either
\* placeholder, and replacing ":question:" first or ":warning:" first gives
\* the same string, for every text.
C9_OrderIrrelevant ==
    op = "replace_emoji_strings" =>
        /\ ret.value = ReplaceBoth(args.text)
        /\ QuestionThenWarning(args.text) = WarningThenQuestion(args.text)

\* C9 as amended: the result holds no placeholder; and for a text in which
\* no ":question:" shares a colon with a ":warning:" every occurrence of
\* either is replaced and both orders of replacement give the result.
C9_OrderIrrelevantUnlessSharedColon ==
    op = "replace_emoji_strings" =>
        /\ ~HasSubstring(ret.value, QuestionEmoji)
        /\ ~HasSubstring(ret.value, WarningEmoji)
        /\ ~SharedColon(args.text) =>
              /\ ret.value = ReplaceBoth(args.text)
              /\ ret.value = QuestionThenWarning(args.text)
              /\ ret.value = WarningThenQuestion(args.text)

C9_Witness ==
    /\ op = "replace_emoji_strings"
    /\ ~SharedColon(args.text)
    /\ HasSubstring(args.text, QuestionEmoji)
    /\ HasSubstring(args.text, WarningEmoji)

\* The documents that hold one section per team of cs, the sections in the
\* order of teams, each with the cards of its team in their order in cs.
CardsOf(cs, team) == SelectSeq(cs, LAMBDA c : c.team = team)

RECURSIVE SectionsOf(_, _)
SectionsOf(cs, order) ==
    IF order = <<>> THEN <<>>
    ELSE Heading2 \o Head(order) \o <<"\n", "\n">>
         \o Concat([i \in 1..Len(CardsOf(cs, Head(order))) |->
                       format_card_as_markdown(CardsOf(cs, Head(order))[i])])
         \o SectionsOf(cs, Tail(order))

Orders(S) ==
    {o \in [1..Cardinality(S) -> S] :
        \A i, j \in 1..Cardinality(S) : i # j => o[i] # o[j]}

Preambles ==
    {Heading1}
    \cup {Heading1 \o GeneratedOn \o t \o <<"*", "\n", "\n", "\n">> : t \in Times}

\* C10: for cards, format_cards_to_markdown emits after the preamble one
\* section per distinct team, and in it every card of that team once, in
\* the order of the input.
C10_StableGrouping ==
    (op = "format_cards_to_markdown" /\ args.cards # <<>>) =>
        \E pre \in Preambles :
            \E order \in Orders({args.cards[i].team : i \in 1..Len(args.cards)}) :
                ret.value = pre \o SectionsOf(args.cards, order)

C10_Witness ==
    /\ op = "format_cards_to_markdown"
    /\ Len(args.cards) = 3
    /\ args.cards[1].team = args.cards[3].team
    /\ args.cards[1].team # args.cards[2].team
    /\ args.cards[1] # args.cards[3]

====
